---- MODULE Spec2Model ----
(***************************************************************************)
(* Model of the peek-nth crate (src/src/lib.rs): PeekableNth<I>, an        *)
(* iterator adapter with a lookahead buffer `next` in front of the wrapped *)
(* iterator `iter`.  The crate builds with one of two buffer containers    *)
(* (VecDeque, or SmallVec under the "smallvec" feature); both builds are   *)
(* modelled and driven by the same calls.                                  *)
(***************************************************************************)
EXTENDS Integers, Sequences, FiniteSets, TLC

(* ---------------- bounds of the model ---------------- *)
MaxLen == 3
CloneMaxLen == 2
MaxVal == 2
MaxDepth == 2
UsizeBits == 3

Values == 1..MaxVal
(* usize, scaled down to UsizeBits bits *)
UsizeMax == 2^UsizeBits - 1
wrapping_add(a, b) == (a + b) % (UsizeMax + 1)

(* the depths tried: the small ones and the largest usize *)
Depths == (0..MaxDepth) \cup {UsizeMax}

RECURSIVE SeqsUpTo(_)
SeqsUpTo(k) ==
  IF k = 0 THEN {<<>>}
  ELSE LET shorter == SeqsUpTo(k - 1)
       IN shorter \cup {Append(s, v) : s \in {t \in shorter : Len(t) = k - 1}, v \in Values}

(* every sequence up to MaxLen over Values, and the sequence [1,2,3] *)
Sources == SeqsUpTo(MaxLen) \cup {<<1, 2, 3>>}

(* ---------------- Option<T> ---------------- *)
None == <<>>
Some(v) == <<v>>

Reverse(s) == [i \in 1..Len(s) |-> s[Len(s) + 1 - i]]
Front(s) == SubSeq(s, 1, Len(s) - 1)

(* ---------------- the wrapped iterator I ---------------- *)
(* A finite, fused, double-ended, exact-size iterator: the elements it    *)
(* has not produced yet, front first.                                     *)
I_next(it) ==
  IF it = <<>> THEN [iter |-> it, ret |-> None]
  ELSE [iter |-> Tail(it), ret |-> Some(Head(it))]

I_next_back(it) ==
  IF it = <<>> THEN [iter |-> it, ret |-> None]
  ELSE [iter |-> Front(it), ret |-> Some(it[Len(it)])]

I_len(it) == Len(it)

(* ---------------- VecDeque<T> (default build) ---------------- *)
VecDeque_new == <<>>
is_empty(q) == Len(q) = 0
get(q, n) == IF n < Len(q) THEN Some(q[n + 1]) ELSE None
(* mutant of push_back: the element is put at the front *)
push_front(q, x) == <<x>> \o q

push_back(q, x) == Append(q, x)
pop_front(q) ==
  IF is_empty(q) THEN [next |-> q, ret |-> None]
  ELSE [next |-> Tail(q), ret |-> Some(Head(q))]
(* mutant of pop_back: back(), the last element is returned and stays *)
pop_back_keeps(q) ==
  IF is_empty(q) THEN [next |-> q, ret |-> None]
  ELSE [next |-> q, ret |-> Some(q[Len(q)])]

pop_back(q) ==
  IF is_empty(q) THEN [next |-> q, ret |-> None]
  ELSE [next |-> Front(q), ret |-> Some(q[Len(q)])]

(* ---------------- SmallVec<[T; 64]> ("smallvec" build) ---------------- *)
SmallVec_new == <<>>
push(v, x) == v \o <<x>>
(* mutant of remove: swap_remove, which fills the hole with the last element *)
swap_remove(v, index) ==
  [next |-> [i \in 1..(Len(v) - 1) |-> IF i = index + 1 THEN v[Len(v)] ELSE v[i]],
   ret |-> v[index + 1]]

(* remove(index): takes v[index] out and shifts the elements after it left *)
remove(v, index) ==
  [next |-> [i \in 1..(Len(v) - 1) |-> IF i <= index THEN v[i] ELSE v[i + 1]],
   ret |-> v[index + 1]]
pop(v) ==
  IF Len(v) = 0 THEN [next |-> v, ret |-> None]
  ELSE [next |-> [i \in 1..(Len(v) - 1) |-> v[i]], ret |-> Some(v[Len(v)])]

(* ---------------- PeekableNth<I>, default build ---------------- *)
(* IteratorExt::peekable_nth *)
peekable_nth(source) == [iter |-> source, next |-> VecDeque_new]

(* the body of the loop `for _ in self.next.len()..=n`, from index i on;  *)
(* `?` leaves the function with None as soon as the iterator is exhausted. *)
(* The inclusive range ends after the index n without stepping past it.   *)
RECURSIVE fill(_, _, _)
fill(self, i, n) ==
  IF i > n THEN [iter |-> self.iter, next |-> self.next, early |-> FALSE]
  ELSE LET r == I_next(self.iter)
       IN IF r.ret = None
          THEN [iter |-> r.iter, next |-> self.next, early |-> TRUE]
          ELSE LET pushed == [iter |-> r.iter, next |-> push_back(self.next, r.ret[1])]
               IN IF i = n
                  THEN [iter |-> pushed.iter, next |-> pushed.next, early |-> FALSE]
                  ELSE fill(pushed, wrapping_add(i, 1), n)

(* mutant of peek_nth: the range is written `len..n+1`, and n+1 wraps *)
peek_nth_wrapping_end(self, n) ==
  LET f == fill(self, Len(self.next), wrapping_add(n, 1) - 1)
  IN [iter |-> f.iter, next |-> f.next,
      ret |-> IF f.early THEN None ELSE get(f.next, n)]

(* mutant of peek_nth: the range is exclusive, `len..n` *)
peek_nth_exclusive(self, n) ==
  LET f == fill(self, Len(self.next), n - 1)
  IN [iter |-> f.iter, next |-> f.next,
      ret |-> IF f.early THEN None ELSE get(f.next, n)]

(* mutant of peek_nth: the loop runs `0..=n` whatever is buffered *)
peek_nth_refill(self, n) ==
  LET f == fill(self, 0, n)
  IN [iter |-> f.iter, next |-> f.next,
      ret |-> IF f.early THEN None ELSE get(f.next, n)]

(* mutant of peek_nth: the range runs one too far, `len..=n+1` *)
peek_nth_overfill(self, n) ==
  LET f == fill(self, Len(self.next), n + 1)
  IN [iter |-> f.iter, next |-> f.next,
      ret |-> IF f.early THEN None ELSE get(f.next, n)]

peek_nth(self, n) ==
  LET f == fill(self, Len(self.next), n)
  IN [iter |-> f.iter, next |-> f.next,
      ret |-> IF f.early THEN None ELSE get(f.next, n)]

peek(self) == peek_nth(self, 0)

(* mutant of Iterator_next: the buffer is not looked at *)
Iterator_next_skip_buffer(self) ==
  LET r == I_next(self.iter)
  IN [iter |-> r.iter, next |-> self.next, ret |-> r.ret]

(* mutant of Iterator_next: the buffer is emptied from its back *)
Iterator_next_pop_back(self) ==
  IF is_empty(self.next)
  THEN LET r == I_next(self.iter)
       IN [iter |-> r.iter, next |-> self.next, ret |-> r.ret]
  ELSE LET r == pop_back(self.next)
       IN [iter |-> self.iter, next |-> r.next, ret |-> r.ret]

(* Iterator::next *)
Iterator_next(self) ==
  IF is_empty(self.next)
  THEN LET r == I_next(self.iter)
       IN [iter |-> r.iter, next |-> self.next, ret |-> r.ret]
  ELSE LET r == pop_front(self.next)
       IN [iter |-> self.iter, next |-> r.next, ret |-> r.ret]

(* mutant of next_back: an exhausted source ends the iteration and the    *)
(* buffer is dropped                                                      *)
next_back_clears(self) ==
  LET b == I_next_back(self.iter)
  IN IF b.ret = None
     THEN [iter |-> b.iter, next |-> VecDeque_new, ret |-> None]
     ELSE [iter |-> b.iter, next |-> self.next, ret |-> b.ret]

(* mutant of next_back: the buffer is asked before the source *)
next_back_buffer_first(self) ==
  IF ~is_empty(self.next)
  THEN LET r == pop_back(self.next)
       IN [iter |-> self.iter, next |-> r.next, ret |-> r.ret]
  ELSE LET b == I_next_back(self.iter)
       IN [iter |-> b.iter, next |-> self.next, ret |-> b.ret]

(* mutant of next_back: the source's answer is returned as it is *)
next_back_no_buffer(self) ==
  LET b == I_next_back(self.iter)
  IN [iter |-> b.iter, next |-> self.next, ret |-> b.ret]

(* DoubleEndedIterator::next_back *)
next_back(self) ==
  LET b == I_next_back(self.iter)
  IN IF b.ret = None /\ ~is_empty(self.next)
     THEN LET r == pop_back(self.next)
          IN [iter |-> b.iter, next |-> r.next, ret |-> r.ret]
     ELSE [iter |-> b.iter, next |-> self.next, ret |-> b.ret]

(* mutant of len: the buffered elements are counted too *)
len_with_buffer(self) == I_len(self.iter) + Len(self.next)

(* ExactSizeIterator::len *)
len(self) == I_len(self.iter)

(* mutant of clone: the clone starts with a fresh buffer *)
clone_fresh_buffer(self) == [iter |-> self.iter, next |-> VecDeque_new]

(* #[derive(Clone)]: each field is cloned *)
clone(self) == [iter |-> self.iter, next |-> self.next]

(* ---------------- PeekableNth<I>, "smallvec" build ---------------- *)
sv_peekable_nth(source) == [iter |-> source, next |-> SmallVec_new]

RECURSIVE sv_fill(_, _, _)
sv_fill(self, i, n) ==
  IF i > n THEN [iter |-> self.iter, next |-> self.next, early |-> FALSE]
  ELSE LET r == I_next(self.iter)
       IN IF r.ret = None
          THEN [iter |-> r.iter, next |-> self.next, early |-> TRUE]
          ELSE LET pushed == [iter |-> r.iter, next |-> push(self.next, r.ret[1])]
               IN IF i = n
                  THEN [iter |-> pushed.iter, next |-> pushed.next, early |-> FALSE]
                  ELSE sv_fill(pushed, wrapping_add(i, 1), n)

sv_peek_nth(self, n) ==
  LET f == sv_fill(self, Len(self.next), n)
  IN [iter |-> f.iter, next |-> f.next,
      ret |-> IF f.early THEN None ELSE get(f.next, n)]

sv_Iterator_next(self) ==
  IF is_empty(self.next)
  THEN LET r == I_next(self.iter)
       IN [iter |-> r.iter, next |-> self.next, ret |-> r.ret]
  ELSE LET r == remove(self.next, 0)
       IN [iter |-> self.iter, next |-> r.next, ret |-> Some(r.ret)]

sv_next_back(self) ==
  LET b == I_next_back(self.iter)
  IN IF b.ret = None /\ ~is_empty(self.next)
     THEN LET r == pop(self.next)
          IN [iter |-> b.iter, next |-> r.next, ret |-> r.ret]
     ELSE [iter |-> b.iter, next |-> self.next, ret |-> b.ret]

sv_len(self) == I_len(self.iter)

(* `iter.collect()`: calls next() until it returns None *)
RECURSIVE collect(_)
collect(self) ==
  LET r == Iterator_next(self)
  IN IF r.ret = None THEN <<>>
     ELSE <<r.ret[1]>> \o collect([iter |-> r.iter, next |-> r.next])

(* the n-th (from 0) result of repeated next() *)
RECURSIVE nth(_, _)
nth(self, n) ==
  LET r == Iterator_next(self)
  IN IF n = 0 \/ r.ret = None THEN r.ret
     ELSE nth([iter |-> r.iter, next |-> r.next], n - 1)

(* ---------------- state ---------------- *)
VARIABLES
  S,        \* the sequence the wrapped iterator was created over
  dq,       \* the PeekableNth of the default build: [iter, next]
  sv,       \* the PeekableNth of the "smallvec" build, given the same calls
  last,     \* the last call on dq: its name, depth, result, and where the value came from
  sv_last,  \* what the same call returned in the "smallvec" build
  outF,     \* values next() has returned so far, in call order
  outB,     \* values next_back() has returned so far, in call order
  pulled,   \* how many elements peek_nth has moved from iter into next so far
  deepest,  \* the largest depth passed to peek_nth since next was last empty, -1 if none
  dup       \* a clone of dq, once one was made, with what it has delivered

vars == <<S, dq, sv, last, sv_last, outF, outB, pulled, deepest, dup>>

State(r) == [iter |-> r.iter, next |-> r.next]
Call(op, n, ret, count, from) == [op |-> op, n |-> n, ret |-> ret, count |-> count, from |-> from]
NoDup == [live |-> FALSE, iter |-> <<>>, next |-> <<>>, outF |-> <<>>, outB |-> <<>>, snap |-> <<>>]

Init ==
  /\ S \in Sources
  /\ dq = peekable_nth(S)
  /\ sv = sv_peekable_nth(S)
  /\ last = Call("peekable_nth", 0, None, 0, "none")
  /\ sv_last = [ret |-> None, count |-> 0]
  /\ outF = <<>>
  /\ outB = <<>>
  /\ pulled = 0
  /\ deepest = -1
  /\ dup = NoDup

PeekAt(n) ==
  LET r == peek_nth(dq, n)
      s == sv_peek_nth(sv, n)
  IN /\ dq' = State(r)
     /\ sv' = State(s)
     /\ last' = Call("peek_nth", n, r.ret, 0,
                     IF r.ret = None THEN "none"
                     ELSE IF n < Len(dq.next) THEN "buffer" ELSE "source")
     /\ sv_last' = [ret |-> s.ret, count |-> 0]
     /\ pulled' = pulled + (Len(r.next) - Len(dq.next))
     /\ deepest' = (IF is_empty(r.next) THEN -1 ELSE IF n > deepest THEN n ELSE deepest)
     /\ UNCHANGED <<S, outF, outB, dup>>

Advance ==
  LET r == Iterator_next(dq)
      s == sv_Iterator_next(sv)
  IN /\ dq' = State(r)
     /\ sv' = State(s)
     /\ last' = Call("next", 0, r.ret, 0,
                     IF r.ret = None THEN "none"
                     ELSE IF Len(dq.next) > 0 THEN "buffer" ELSE "source")
     /\ sv_last' = [ret |-> s.ret, count |-> 0]
     /\ outF' = outF \o r.ret
     /\ deepest' = (IF is_empty(r.next) THEN -1 ELSE deepest)
     /\ UNCHANGED <<S, outB, pulled, dup>>

AdvanceBack ==
  LET r == next_back(dq)
      s == sv_next_back(sv)
  IN /\ dq' = State(r)
     /\ sv' = State(s)
     /\ last' = Call("next_back", 0, r.ret, 0,
                     IF r.ret = None THEN "none"
                     ELSE IF Len(dq.iter) > 0 THEN "source" ELSE "buffer")
     /\ sv_last' = [ret |-> s.ret, count |-> 0]
     /\ outB' = outB \o r.ret
     /\ deepest' = (IF is_empty(r.next) THEN -1 ELSE deepest)
     /\ UNCHANGED <<S, outF, pulled, dup>>

GetLen ==
  /\ last' = Call("len", 0, None, len(dq), "none")
  /\ sv_last' = [ret |-> None, count |-> sv_len(sv)]
  /\ UNCHANGED <<S, dq, sv, outF, outB, pulled, deepest, dup>>

Next ==
  \/ \E n \in Depths : PeekAt(n)
  \/ Advance
  \/ AdvanceBack
  \/ GetLen

Spec == Init /\ [][Next]_vars

(* ---------------- a second instance made by clone() ---------------- *)
Dup(st, f, b, snap) ==
  [live |-> TRUE, iter |-> st.iter, next |-> st.next, outF |-> f, outB |-> b, snap |-> snap]

Clone ==
  /\ ~dup.live
  /\ dup' = Dup(clone(dq), <<>>, <<>>, collect(dq))
  /\ last' = Call("clone", 0, None, 0, "none")
  /\ sv_last' = [ret |-> None, count |-> 0]
  /\ UNCHANGED <<S, dq, sv, outF, outB, pulled, deepest>>

DupPeekAt(n) ==
  /\ dup.live
  /\ dup' = Dup(peek_nth(State(dup), n), dup.outF, dup.outB, dup.snap)
  /\ UNCHANGED <<S, dq, sv, last, sv_last, outF, outB, pulled, deepest>>

DupAdvance ==
  /\ dup.live
  /\ LET r == Iterator_next(State(dup))
     IN dup' = Dup(r, dup.outF \o r.ret, dup.outB, dup.snap)
  /\ UNCHANGED <<S, dq, sv, last, sv_last, outF, outB, pulled, deepest>>

DupAdvanceBack ==
  /\ dup.live
  /\ LET r == next_back(State(dup))
     IN dup' = Dup(r, dup.outF, dup.outB \o r.ret, dup.snap)
  /\ UNCHANGED <<S, dq, sv, last, sv_last, outF, outB, pulled, deepest>>

InitClone == Init /\ (Len(S) <= CloneMaxLen \/ S = <<1, 2, 3>>)

NextClone ==
  \/ \E n \in Depths : PeekAt(n)
  \/ Advance
  \/ AdvanceBack
  \/ Clone
  \/ \E n \in Depths : DupPeekAt(n)
  \/ DupAdvance
  \/ DupAdvanceBack

SpecClone == InitClone /\ [][NextClone]_vars

(* ---------------- properties ---------------- *)
Drained == last.op \in {"next", "next_back"} /\ last.ret = None
IsPrefix(a, b) == Len(a) <= Len(b) /\ SubSeq(b, 1, Len(a)) = a
IsSuffix(a, b) == Len(a) <= Len(b) /\ SubSeq(b, Len(b) - Len(a) + 1, Len(b)) = a

(* C1: with only peek_nth and next() called (no next_back), the values    *)
(* next() returns, continued until it returns None, are exactly S in      *)
(* order: what was returned so far followed by what a drain from here     *)
(* returns is S, and once next() has returned None everything of S was    *)
(* returned.                                                              *)
C1_DrainYieldsSource ==
  outB = <<>> =>
    /\ outF \o collect(dq) = S
    /\ (last.op = "next" /\ last.ret = None) => outF = S

C1_Witness ==
  /\ outB = <<>> /\ last.op = "next" /\ last.ret = None
  /\ Len(outF) >= 3 /\ pulled >= 2

(* C2: whenever peek_nth(n) returns a value, it is the value the (n+1)-th *)
(* of n+1 consecutive next() calls returns; with f values returned by     *)
(* next(), none by next_back() and f+n < |S|, it returns S[f+n].          *)
C2_PeekIsNthAhead ==
  /\ \A n \in Depths :
       LET p == peek_nth(dq, n)
       IN /\ p.ret # None => p.ret = nth(dq, n)
          /\ (outB = <<>> /\ Len(outF) + n < Len(S)) => p.ret = Some(S[Len(outF) + n + 1])
  /\ (last.op = "peek_nth" /\ last.ret # None) => last.ret = nth(dq, last.n)

C2_Witness ==
  /\ last.op = "peek_nth" /\ last.n >= 1 /\ last.ret # None
  /\ Len(outF) >= 1 /\ outB = <<>>

(* C3: peek_nth(k) repeated with no next()/next_back() in between returns *)
(* the same result every time, also with a peek at another depth m made   *)
(* in between; a peek just made returns the same result when made again.  *)
C3_PeekRepeatable ==
  /\ \A k \in Depths : \A m \in Depths :
       LET a == peek_nth(dq, k)
           b == peek_nth(State(a), m)
           c == peek_nth(State(b), k)
           d == peek_nth(State(a), k)
       IN c.ret = a.ret /\ d.ret = a.ret
  /\ last.op = "peek_nth" => peek_nth(dq, last.n).ret = last.ret

C3_Witness ==
  /\ last.op = "peek_nth" /\ last.n = 1 /\ last.from = "buffer"
  /\ Len(dq.next) >= 3

(* C4: peek_nth(n) returns None exactly when fewer than n+1 elements are  *)
(* left in buffer and source together; after a peek that returned None a  *)
(* drain by next() still returns every element that was left, in order;   *)
(* on an empty source peek_nth(0) and next() return None.                 *)
C4_PeekNoneIffShort ==
  /\ [][last'.op = "peek_nth" =>
          /\ last'.ret = None <=> Len(dq.next) + Len(dq.iter) < last'.n + 1
          /\ last'.ret = None => collect(dq') = dq.next \o dq.iter]_vars
  /\ []((S = <<>> /\ last.op \in {"peek_nth", "next"}) => last.ret = None)

C4_Witness ==
  /\ last.op = "peek_nth" /\ last.ret = None
  /\ Len(dq.next) >= 2 /\ outF # <<>>

(* C5: any interleaving of next(), next_back() and peek_nth run until the *)
(* iterator is exhausted delivers every element of S exactly once: the    *)
(* values of next() are a prefix of S, the values of next_back() are the  *)
(* reverse of a disjoint suffix, and at exhaustion the two make up S.     *)
C5_BothEndsPartition ==
  /\ IsPrefix(outF, S)
  /\ IsSuffix(Reverse(outB), S)
  /\ Len(outF) + Len(outB) <= Len(S)
  /\ Drained => outF \o Reverse(outB) = S

C5_Witness ==
  /\ Drained /\ outF # <<>> /\ Len(outB) >= 2 /\ pulled >= 2

(* C6: len() equals the number of elements the caller can still receive:  *)
(* the original total minus the elements already returned.                *)
C6_LenIsRemaining ==
  last.op = "len" => last.count = Len(S) - Len(outF) - Len(outB)

(* C7: next_back() with the source exhausted removes and returns the last *)
(* buffered element, leaving the others in place, or returns None when    *)
(* the buffer is empty; on [1,2,3] after peek_nth(2) returned 3, the      *)
(* calls next_back(), next(), next_back() return 3, 1, 2 and the calls    *)
(* after them return None.                                                *)
C7_BackFromBuffer ==
  /\ [][(last'.op = "next_back" /\ dq.iter = <<>>) =>
          IF dq.next # <<>>
          THEN /\ last'.ret = Some(dq.next[Len(dq.next)])
               /\ dq'.next = Front(dq.next)
               /\ dq'.iter = <<>>
          ELSE last'.ret = None /\ dq' = dq]_vars
  /\ []((S = <<1, 2, 3>> /\ last.op = "peek_nth" /\ last.n = 2 /\ outF = <<>> /\ outB = <<>>) =>
          LET b1 == next_back(dq)
              f2 == Iterator_next(State(b1))
              b3 == next_back(State(f2))
              f4 == Iterator_next(State(b3))
              b5 == next_back(State(f4))
          IN /\ last.ret = Some(3)
             /\ <<b1.ret, f2.ret, b3.ret, f4.ret, b5.ret>> = <<Some(3), Some(1), Some(2), None, None>>)

C7_Witness ==
  /\ S = <<1, 2, 3>> /\ last.op = "next_back" /\ last.from = "buffer"
  /\ last.ret = Some(3) /\ dq.next = <<1, 2>>

(* C8: the two builds, given the same source and the same calls, return   *)
(* the same results at every step and hold the same buffer contents.      *)
C8_BuildsAgree ==
  /\ sv.next = dq.next
  /\ sv.iter = dq.iter
  /\ sv_last.ret = last.ret
  /\ sv_last.count = last.count

C8_Witness ==
  /\ last.op = "next" /\ last.from = "buffer" /\ Len(sv.next) >= 2

(* C9: after clone() the two instances evolve independently: a call on    *)
(* one leaves the other's buffer and source position unchanged; the clone *)
(* starts equal to the original, and each instance delivers the remaining *)
(* sequence the original had when it was cloned.                          *)
C9_CloneIndependent ==
  /\ [][(~dup.live /\ dup'.live) => (State(dup') = dq /\ dq' = dq)]_vars
  /\ [][(dup.live /\ dup'.live) => (dq' = dq \/ State(dup') = State(dup))]_vars
  /\ [](dup.live =>
          /\ dup.outF \o dup.next \o dup.iter \o Reverse(dup.outB) = dup.snap
          /\ dup.outF \o collect(State(dup)) \o Reverse(dup.outB) = dup.snap
          /\ outF \o collect(dq) \o Reverse(outB) = S)

C9_Witness ==
  /\ dup.live /\ Len(dup.snap) >= 3
  /\ dup.outF # <<>> /\ dup.outB # <<>> /\ dup.next # <<>>
  /\ State(dup) # dq /\ Len(outF) >= 2

(* C10: what next() returned, the buffer, what the source still holds and *)
(* the reverse of what next_back() returned make up S, in this order;     *)
(* buffer[i] is the element i steps ahead of the current position.        *)
C10_BufferIsContiguousRun ==
  /\ outF \o dq.next \o dq.iter \o Reverse(outB) = S
  /\ \A i \in 1..Len(dq.next) : nth(dq, i - 1) = Some(dq.next[i])

C10_Witness ==
  /\ dq.next # <<>> /\ outF # <<>> /\ outB # <<>>

Min(a, b) == IF a <= b THEN a ELSE b

(* C11: len() returns exactly the wrapped iterator's own remaining count, *)
(* whatever the number of buffered elements, and changes nothing.         *)
C11_LenIsSourceCount ==
  /\ [](last.op = "len" => last.count = Len(dq.iter))
  /\ [][last'.op = "len" => (last'.count = Len(dq.iter) /\ dq' = dq)]_vars

C11_Witness ==
  /\ last.op = "len" /\ Len(dq.next) >= 2 /\ dq.iter # <<>>
  /\ last.count = Len(dq.iter)

(* C12: next_back() asks the source first: when the source yields a value *)
(* this value (the source's last element) is returned and the buffer is   *)
(* left unchanged, also when the buffer is not empty; no buffered element *)
(* is returned while the source holds an element.                         *)
C12_BackPrefersSource ==
  [][(last'.op = "next_back" /\ dq.iter # <<>>) =>
       /\ last'.ret = Some(dq.iter[Len(dq.iter)])
       /\ dq'.iter = Front(dq.iter)
       /\ dq'.next = dq.next
       /\ last'.from = "source"]_vars

C12_Witness ==
  /\ last.op = "next_back" /\ last.from = "source"
  /\ Len(dq.next) >= 2 /\ last.ret # Some(dq.next[Len(dq.next)])

(* C13: peek_nth(n) with at least n+1 elements buffered returns next[n]   *)
(* and leaves buffer and source as they are.                              *)
C13_PeekFromBuffer ==
  /\ [](\A n \in Depths : n < Len(dq.next) =>
          peek_nth(dq, n) = [iter |-> dq.iter, next |-> dq.next, ret |-> Some(dq.next[n + 1])])
  /\ [][(last'.op = "peek_nth" /\ last'.n < Len(dq.next)) =>
          (last'.ret = Some(dq.next[last'.n + 1]) /\ dq' = dq /\ pulled' = pulled)]_vars

C13_Witness ==
  /\ last.op = "peek_nth" /\ last.from = "buffer" /\ last.n >= 1
  /\ dq.iter # <<>> /\ pulled >= 2

(* C14: peek_nth(n) with b < n+1 elements buffered and r elements in the  *)
(* source moves exactly min(n+1-b, r) elements from the front of the      *)
(* source to the back of the buffer, in order, keeping what was buffered; *)
(* it returns None exactly when r < n+1-b, and then the buffer holds all  *)
(* b+r elements and the source is exhausted.                              *)
C14_PeekFillsExactly ==
  [][(last'.op = "peek_nth" /\ Len(dq.next) < last'.n + 1) =>
       LET b == Len(dq.next)
           r == Len(dq.iter)
           k == Min(last'.n + 1 - b, r)
       IN /\ dq'.next = dq.next \o SubSeq(dq.iter, 1, k)
          /\ dq'.iter = SubSeq(dq.iter, k + 1, r)
          /\ pulled' = pulled + k
          /\ last'.ret = None <=> r < last'.n + 1 - b
          /\ last'.ret = None => (dq'.iter = <<>> /\ Len(dq'.next) = b + r)]_vars

C14_Witness ==
  /\ last.op = "peek_nth" /\ last.from = "source" /\ last.n >= 1
  /\ Len(dq.next) >= 2 /\ dq.iter # <<>>

(* C15: next() with a non-empty buffer removes and returns next[0], keeps *)
(* the other buffered elements in order and does not touch the source;    *)
(* with an empty buffer it returns what the source's next() returns and   *)
(* the buffer stays empty.                                                *)
C15_AdvanceFrontOfBuffer ==
  [][last'.op = "next" =>
       IF dq.next # <<>>
       THEN /\ last'.ret = Some(dq.next[1])
            /\ dq'.next = Tail(dq.next)
            /\ dq'.iter = dq.iter
       ELSE /\ last'.ret = I_next(dq.iter).ret
            /\ dq'.iter = I_next(dq.iter).iter
            /\ dq'.next = <<>>]_vars

C15_Witness ==
  /\ last.op = "next" /\ last.from = "buffer"
  /\ Len(dq.next) >= 2 /\ dq.next[1] # dq.next[2] /\ last.ret # Some(dq.next[2])

(* C16 as claimed: the buffer's length is at most the largest depth       *)
(* passed to peek_nth since the buffer was last drained, and the buffer   *)
(* is empty when no such peek was made.                                   *)
C16_BufferWithinDeepest ==
  Len(dq.next) <= (IF deepest < 0 THEN 0 ELSE deepest)

(* C16 amended: the buffer's length is at most one more than the largest  *)
(* depth passed to peek_nth since the buffer was last empty; the buffer   *)
(* is empty at construction and as long as no peek has been made.         *)
C16_BufferWithinDeepestPlusOne ==
  /\ Len(dq.next) <= deepest + 1
  /\ pulled = 0 => dq.next = <<>>

C16_Witness ==
  /\ deepest >= 1 /\ Len(dq.next) = deepest + 1
  /\ outF # <<>>

Exhausted == is_empty(dq.next) /\ dq.iter = <<>>

(* C17: once next() or next_back() has returned None the buffer is empty  *)
(* and the source exhausted, everything of S was delivered, and from then *)
(* on every peek_nth, next() and next_back() returns None, len() returns  *)
(* 0, and nothing is delivered again.                                     *)
C17_ExhaustionIsPermanent ==
  /\ [](Drained => (Exhausted /\ outF \o Reverse(outB) = S))
  /\ [][Exhausted =>
          /\ dq' = dq
          /\ last'.ret = None /\ last'.count = 0
          /\ outF' = outF /\ outB' = outB]_vars
  /\ [](Exhausted =>
          /\ \A n \in Depths : peek_nth(dq, n).ret = None
          /\ Iterator_next(dq).ret = None
          /\ next_back(dq).ret = None
          /\ len(dq) = 0)

C17_Witness ==
  /\ Drained /\ last.op = "next_back" /\ outF # <<>> /\ Len(outB) >= 2 /\ pulled >= 2

(* C18: with f values returned by next() and k by next_back(), peek_nth(n) *)
(* returns S[f+n] when f+n < |S|-k and None otherwise, so it never shows   *)
(* an element next_back() has delivered, whether that element came from    *)
(* the source or from the buffer.                                          *)
PeekExpected(n) ==
  IF Len(outF) + n < Len(S) - Len(outB) THEN Some(S[Len(outF) + n + 1]) ELSE None

C18_PeekStopsBeforeBack ==
  /\ \A n \in Depths : peek_nth(dq, n).ret = PeekExpected(n)
  /\ last.op = "peek_nth" => last.ret = PeekExpected(last.n)

C18_Witness ==
  /\ last.op = "peek_nth" /\ last.ret = None
  /\ Len(outF) + last.n < Len(S) /\ Len(outB) >= 2
  /\ pulled >= 2 /\ dq.next # <<>>

(* C19: peek_nth at the largest usize depth does not overflow: on a       *)
(* source of fewer than 2^UsizeBits elements it moves all remaining       *)
(* elements into the buffer, returns None and terminates.                 *)
C19_MaxDepthNoOverflow ==
  /\ [](Len(S) <= UsizeMax =>
          LET p == peek_nth(dq, UsizeMax)
          IN p.ret = None /\ p.next = dq.next \o dq.iter /\ p.iter = <<>>)
  /\ [][(last'.op = "peek_nth" /\ last'.n = UsizeMax /\ Len(S) <= UsizeMax) =>
          /\ last'.ret = None
          /\ dq'.next = dq.next \o dq.iter
          /\ dq'.iter = <<>>]_vars

C19_Witness ==
  /\ last.op = "peek_nth" /\ last.n = UsizeMax /\ last.ret = None
  /\ Len(S) <= UsizeMax /\ Len(dq.next) >= 2 /\ pulled >= 2 /\ outF # <<>>

====
